---- MODULE Spec2Model ----
(***************************************************************************)
(* A model of cachecontrol's CacheController (src/cachecontrol/            *)
(* controller.py): the cache-control directive parser, the lookup          *)
(* (cached_request), the write decision (cache_response) and the 304       *)
(* merge (update_cached_response), over a key/value backend.               *)
(*                                                                         *)
(* Text that the controller itself takes apart (Cache-Control,             *)
(* Content-Length, Vary) is a sequence of one-character strings, so that   *)
(* split, strip, isdigit and int are computed as Python computes them.     *)
(* HTTP-dates are handed to email.utils.parsedate_tz, a library: they are  *)
(* whole strings, parsed by a table.                                       *)
(***************************************************************************)
EXTENDS Integers, Sequences, FiniteSets, TLC

\* cache: the backend; cache_etags: the controller's setting; last: the call
\* that has just finished; threads: the calls under way at the same time.
VARIABLES cache, cache_etags, last, threads

vars == <<cache, cache_etags, last, threads>>

\* Python's None, for a backend value, a lookup result, a return value.
None == [kind |-> "none"]

(***************************************************************************)
(* Python string primitives on sequences of characters.                    *)
(***************************************************************************)

Digit == ("0" :> 0) @@ ("1" :> 1) @@ ("2" :> 2) @@ ("3" :> 3) @@ ("4" :> 4) @@
         ("5" :> 5) @@ ("6" :> 6) @@ ("7" :> 7) @@ ("8" :> 8) @@ ("9" :> 9)

\* str.isdigit(): non-empty and every character a digit.
isdigit(s) == Len(s) > 0 /\ \A i \in 1..Len(s) : s[i] \in DOMAIN Digit

RECURSIVE DigitsValue(_)
DigitsValue(s) ==
    IF Len(s) = 0 THEN 0
    ELSE 10 * DigitsValue(SubSeq(s, 1, Len(s) - 1)) + Digit[s[Len(s)]]

\* str.strip(): leading and trailing blanks removed.
RECURSIVE strip(_)
strip(s) ==
    IF Len(s) = 0 THEN s
    ELSE IF s[1] = " " THEN strip(Tail(s))
    ELSE IF s[Len(s)] = " " THEN strip(SubSeq(s, 1, Len(s) - 1))
    ELSE s

\* int(s): [ok |-> TRUE, val |-> n], or ok = FALSE where Python raises
\* ValueError.  An optional sign, then digits.
int(s) ==
    LET t == strip(s)
        signed == Len(t) > 0 /\ t[1] \in {"-", "+"}
        digits == IF signed THEN Tail(t) ELSE t
    IN  IF isdigit(digits)
        THEN [ok |-> TRUE,
              val |-> IF signed /\ t[1] = "-" THEN 0 - DigitsValue(digits)
                      ELSE DigitsValue(digits)]
        ELSE [ok |-> FALSE, val |-> 0]

\* The first index of character c in s, 0 when there is none.
RECURSIVE find(_, _, _)
find(s, c, i) ==
    IF i > Len(s) THEN 0
    ELSE IF s[i] = c THEN i
    ELSE find(s, c, i + 1)

\* s.split(c): the pieces between the occurrences of c, at least one piece.
RECURSIVE split(_, _)
split(s, c) ==
    LET i == find(s, c, 1)
    IN  IF i = 0 THEN <<s>>
        ELSE <<SubSeq(s, 1, i - 1)>> \o split(SubSeq(s, i + 1, Len(s)), c)

\* s.split(c, 1): cut at the first occurrence of c only.
split1(s, c) ==
    LET i == find(s, c, 1)
    IN  IF i = 0 THEN <<s>>
        ELSE <<SubSeq(s, 1, i - 1), SubSeq(s, i + 1, Len(s))>>

(***************************************************************************)
(* Header sets: a mapping from the lower-case header name to its value.    *)
(***************************************************************************)

EmptyHeaders == [n \in {} |-> None]

\* d[k] = v on a dict.
Put(d, k, v) == [x \in DOMAIN d \cup {k} |-> IF x = k THEN v ELSE d[x]]

\* headers.get(name, default)
HeaderGet(headers, name, default) ==
    IF name \in DOMAIN headers THEN headers[name] ELSE default

(***************************************************************************)
(* parse_cache_control.  A directive's value is None or an integer.        *)
(***************************************************************************)

MAX_AGE == <<"m", "a", "x", "-", "a", "g", "e">>
MAX_STALE == <<"m", "a", "x", "-", "s", "t", "a", "l", "e">>
MIN_FRESH == <<"m", "i", "n", "-", "f", "r", "e", "s", "h">>
NO_CACHE == <<"n", "o", "-", "c", "a", "c", "h", "e">>
NO_STORE == <<"n", "o", "-", "s", "t", "o", "r", "e">>
NO_TRANSFORM == <<"n", "o", "-", "t", "r", "a", "n", "s", "f", "o", "r", "m">>
ONLY_IF_CACHED == <<"o", "n", "l", "y", "-", "i", "f", "-", "c", "a", "c", "h", "e", "d">>
MUST_REVALIDATE == <<"m", "u", "s", "t", "-", "r", "e", "v", "a", "l", "i", "d", "a", "t", "e">>
PUBLIC == <<"p", "u", "b", "l", "i", "c">>
PRIVATE == <<"p", "r", "i", "v", "a", "t", "e">>
PROXY_REVALIDATE == <<"p", "r", "o", "x", "y", "-", "r", "e", "v", "a", "l", "i", "d", "a", "t", "e">>
S_MAXAGE == <<"s", "-", "m", "a", "x", "a", "g", "e">>

IntValue(n) == [kind |-> "int", val |-> n]

known_directives ==
    (MAX_AGE :> [typ |-> "int", required |-> TRUE]) @@
    (MAX_STALE :> [typ |-> "int", required |-> FALSE]) @@
    (MIN_FRESH :> [typ |-> "int", required |-> TRUE]) @@
    (NO_CACHE :> [typ |-> "none", required |-> FALSE]) @@
    (NO_STORE :> [typ |-> "none", required |-> FALSE]) @@
    (NO_TRANSFORM :> [typ |-> "none", required |-> FALSE]) @@
    (ONLY_IF_CACHED :> [typ |-> "none", required |-> FALSE]) @@
    (MUST_REVALIDATE :> [typ |-> "none", required |-> FALSE]) @@
    (PUBLIC :> [typ |-> "none", required |-> FALSE]) @@
    (PRIVATE :> [typ |-> "none", required |-> FALSE]) @@
    (PROXY_REVALIDATE :> [typ |-> "none", required |-> FALSE]) @@
    (S_MAXAGE :> [typ |-> "int", required |-> TRUE])

\* One turn of the loop over cc_headers.split(","): retval after cc_directive.
ParseDirective(retval, cc_directive) ==
    IF strip(cc_directive) = <<>> THEN retval
    ELSE LET parts == split1(cc_directive, "=")
             directive == strip(parts[1])
         IN  IF directive \notin DOMAIN known_directives THEN retval
             ELSE LET typ == known_directives[directive].typ
                      required == known_directives[directive].required
                      flagged == IF typ = "none" \/ ~required
                                 THEN Put(retval, directive, None)
                                 ELSE retval
                  IN  IF typ = "none" THEN flagged
                      ELSE IF Len(parts) < 2 THEN flagged        \* IndexError
                      ELSE LET v == int(strip(parts[2]))
                           IN  IF v.ok
                               THEN Put(flagged, directive, IntValue(v.val))
                               ELSE flagged                      \* ValueError

RECURSIVE ParseDirectives(_, _)
ParseDirectives(retval, segments) ==
    IF Len(segments) = 0 THEN retval
    ELSE ParseDirectives(ParseDirective(retval, Head(segments)), Tail(segments))

parse_cache_control(headers) ==
    LET cc_headers == HeaderGet(headers, "cache-control", <<>>)
    IN  ParseDirectives([d \in {} |-> None], split(cc_headers, ","))

(***************************************************************************)
(* URLs, the backend and the serializer.                                   *)
(***************************************************************************)

\* str(uri)
str(uri) == <<uri.scheme, "://", uri.authority, uri.path>>

\* cache_url: ok = FALSE where it raises Exception.
cache_url(uri) ==
    IF uri.scheme = "" \/ uri.authority = ""
    THEN [ok |-> FALSE, key |-> str(uri)]
    ELSE [ok |-> TRUE, key |-> str(uri)]

\* The backend's three operations, on a mapping from key to stored bytes
\* (None: no value under the key).
CacheGet(c, key) == c[key]
CacheSet(c, key, value) == [c EXCEPT ![key] = value]
CacheDelete(c, key) == [c EXCEPT ![key] = None]

\* The record of one backend call made by a handler.
Call(op, key) == [op |-> op, key |-> key]

\* Serializer.dumps: the bytes of an entry, standing for everything it was
\* given.
dumps(request_headers, response_headers, status, http_version, reason, body) ==
    [kind |-> "entry",
     request_headers |-> request_headers,
     headers |-> response_headers,
     status |-> status,
     http_version |-> http_version,
     reason |-> reason,
     body |-> body]

\* Bytes that no dumps call of this serializer wrote.
Undecodable == [kind |-> "undecodable"]

\* Serializer.loads: the stored response, None on bytes it cannot decode or
\* on no bytes.
loads(request_headers, data) ==
    IF data.kind = "entry"
    THEN [kind |-> "response",
          http_version |-> data.http_version,
          status |-> data.status,
          reason |-> data.reason,
          headers |-> data.headers,
          body |-> data.body]
    ELSE None

\* Truth value of what cache.get returned: None and empty bytes are false,
\* and dumps writes no empty bytes.
Truthy(data) == data # None

(***************************************************************************)
(* Dates.  parsedate_tz yields a time tuple or None; calendar.timegm turns *)
(* the tuple into epoch seconds and raises TypeError on None.              *)
(***************************************************************************)

HttpDate ==
    ("Thu, 01 Jan 1970 00:00:00 GMT" :> 0) @@
    ("Thu, 01 Jan 1970 00:00:30 GMT" :> 30) @@
    ("Thu, 01 Jan 1970 00:01:30 GMT" :> 90) @@
    ("Thu, 01 Jan 1970 00:05:00 GMT" :> 300)

parsedate_tz(s) ==
    IF s \in DOMAIN HttpDate THEN [kind |-> "time", epoch |-> HttpDate[s]] ELSE None

timegm(t) == t.epoch

Max(a, b) == IF a >= b THEN a ELSE b

(***************************************************************************)
(* What a handler call comes to: how it ended, what it returned, the       *)
(* backend afterwards and the backend calls it made, in order.             *)
(***************************************************************************)

Return(c, result, calls) ==
    [outcome |-> "return", result |-> result, cache |-> c, calls |-> calls]

Raise(c, exception, calls) ==
    [outcome |-> exception, result |-> None, cache |-> c, calls |-> calls]

False == [kind |-> "False"]

\* A slip: 308 left out of the permanent redirects.
PERMANENT_REDIRECT_STATUSES_Without308 == {301}

PERMANENT_REDIRECT_STATUSES == {301, 308}

cacheable_status_codes == {200, 203, 300, 301, 308}

(***************************************************************************)
(* cached_request                                                          *)
(***************************************************************************)

\* A slip: the max-age=0 test left out.
BypassCache_NoCacheOnly(cc) == NO_CACHE \in DOMAIN cc

\* "Bail out if the request insists on fresh data"
BypassCache(cc) ==
    \/ NO_CACHE \in DOMAIN cc
    \/ MAX_AGE \in DOMAIN cc /\ cc[MAX_AGE].val = 0

\* The freshness lifetime, from the headers the lookup was given.
freshness_lifetime(cc, resp_cc, request_headers, date) ==
    LET from_response ==
            IF MAX_AGE \in DOMAIN resp_cc THEN resp_cc[MAX_AGE].val
            ELSE IF "expires" \in DOMAIN request_headers
            THEN LET expires == parsedate_tz(request_headers["expires"])
                 IN  IF expires # None
                     THEN Max(0, timegm(expires) - date)
                     ELSE 0
            ELSE 0
    IN  IF MAX_AGE \in DOMAIN cc THEN cc[MAX_AGE].val ELSE from_response

\* The current age, min-fresh added.
current_age(cc, now, date) ==
    LET age == Max(0, now - date)
    IN  IF MIN_FRESH \in DOMAIN cc THEN age + cc[MIN_FRESH].val ELSE age

\* cached_request deleting the bytes it cannot decode.
cached_request_PurgesUndecodable(c, request_url, request_headers, now) ==
    LET url == cache_url(request_url)
        key == url.key
        cc == parse_cache_control(request_headers)
        got == <<Call("get", key)>>
        purged == got \o <<Call("delete", key)>>
    IN  IF ~url.ok THEN Raise(c, "Exception", <<>>)
        ELSE IF BypassCache(cc) THEN Return(c, False, <<>>)
        ELSE LET cache_data == CacheGet(c, key)
                 resp == loads(request_headers, cache_data)
             IN
        IF cache_data = None THEN Return(c, False, got)
        ELSE IF resp = None THEN Return(CacheDelete(c, key), False, purged)
        ELSE IF resp.status \in PERMANENT_REDIRECT_STATUSES
        THEN Return(c, resp, got)
        ELSE IF "date" \notin DOMAIN request_headers
        THEN IF "etag" \notin DOMAIN request_headers
             THEN Return(CacheDelete(c, key), False, purged)
             ELSE Return(c, False, got)
        ELSE LET parsed == parsedate_tz(request_headers["date"]) IN
        IF parsed = None THEN Raise(c, "TypeError", got)
        ELSE LET date == timegm(parsed)
                 resp_cc == parse_cache_control(request_headers)
             IN
        IF freshness_lifetime(cc, resp_cc, request_headers, date)
               > current_age(cc, now, date)
        THEN Return(c, resp, got)
        ELSE IF "etag" \notin DOMAIN request_headers
        THEN Return(CacheDelete(c, key), False, purged)
        ELSE Return(c, False, got)

cached_request(c, request_url, request_headers, now) ==
    LET url == cache_url(request_url)
        key == url.key
        cc == parse_cache_control(request_headers)
        got == <<Call("get", key)>>
        purged == got \o <<Call("delete", key)>>
    IN  IF ~url.ok THEN Raise(c, "Exception", <<>>)
        ELSE IF BypassCache(cc) THEN Return(c, False, <<>>)
        ELSE LET cache_data == CacheGet(c, key)
                 resp == loads(request_headers, cache_data)
             IN
        IF cache_data = None THEN Return(c, False, got)
        ELSE IF resp = None THEN Return(c, False, got)
        ELSE IF resp.status \in PERMANENT_REDIRECT_STATUSES
        THEN Return(c, resp, got)
        ELSE IF "date" \notin DOMAIN request_headers
        THEN IF "etag" \notin DOMAIN request_headers
             THEN Return(CacheDelete(c, key), False, purged)
             ELSE Return(c, False, got)
        ELSE LET parsed == parsedate_tz(request_headers["date"]) IN
        IF parsed = None THEN Raise(c, "TypeError", got)
        ELSE LET date == timegm(parsed)
                 resp_cc == parse_cache_control(request_headers)
             IN
        IF freshness_lifetime(cc, resp_cc, request_headers, date)
               > current_age(cc, now, date)
        THEN Return(c, resp, got)
        ELSE IF "etag" \notin DOMAIN request_headers
        THEN Return(CacheDelete(c, key), False, purged)
        ELSE Return(c, False, got)

(***************************************************************************)
(* conditional_headers: request_headers is no name of its scope.           *)
(***************************************************************************)

\* conditional_headers without the key computed first.
conditional_headers_NoKey(c, request_url) == Raise(c, "NameError", <<>>)

conditional_headers(c, request_url) ==
    IF ~cache_url(request_url).ok THEN Raise(c, "Exception", <<>>)
    ELSE Raise(c, "NameError", <<>>)

(***************************************************************************)
(* cache_response                                                          *)
(***************************************************************************)

\* A response body of the given bytes (None: no body given).
Bytes(b) == [kind |-> "bytes", bytes |-> b]

\* A slip: the body's size never compared.
ContentLengthMismatch_Never(response_headers, response_body) == FALSE

\* "the body we've been given matches the expected size, and if it doesn't
\* we'll just skip trying to cache it"
ContentLengthMismatch(response_headers, response_body) ==
    /\ response_body # None
    /\ "content-length" \in DOMAIN response_headers
    /\ isdigit(response_headers["content-length"])
    /\ int(response_headers["content-length"]).val # Len(response_body.bytes)

\* A slip: only the response's directives looked at.
no_store_ResponseOnly(cc, cc_req) == NO_STORE \in DOMAIN cc

no_store(cc, cc_req) == NO_STORE \in DOMAIN cc \/ NO_STORE \in DOMAIN cc_req

\* "*" in response_headers.get("vary", "")
VaryStar(response_headers) ==
    find(HeaderGet(response_headers, "vary", <<>>), "*", 1) # 0

\* A slip: the redirect branch keeps the body it was given.
StoreDecision_KeepsBody(etags, response_headers, response_status_code, cc, response_body) ==
    IF etags /\ "etag" \in DOMAIN response_headers
    THEN [store |-> TRUE, body |-> response_body]
    ELSE IF response_status_code \in {301, 308}
    THEN [store |-> TRUE, body |-> response_body]
    ELSE IF "date" \in DOMAIN response_headers
    THEN IF MAX_AGE \in DOMAIN cc /\ cc[MAX_AGE].val > 0
         THEN [store |-> TRUE, body |-> response_body]
         ELSE IF "expires" \in DOMAIN response_headers
         THEN [store |-> TRUE, body |-> response_body]
         ELSE [store |-> FALSE, body |-> response_body]
    ELSE [store |-> FALSE, body |-> response_body]

\* The if/elif chain that ends in cache.set: whether the response is
\* written, and with what body.
StoreDecision(etags, response_headers, response_status_code, cc, response_body) ==
    IF etags /\ "etag" \in DOMAIN response_headers
    THEN [store |-> TRUE, body |-> response_body]
    ELSE IF response_status_code \in PERMANENT_REDIRECT_STATUSES
    THEN [store |-> TRUE, body |-> Bytes(<<>>)]
    ELSE IF "date" \in DOMAIN response_headers
    THEN IF MAX_AGE \in DOMAIN cc /\ cc[MAX_AGE].val > 0
         THEN [store |-> TRUE, body |-> response_body]
         ELSE IF "expires" \in DOMAIN response_headers
         THEN [store |-> TRUE, body |-> response_body]
         ELSE [store |-> FALSE, body |-> response_body]
    ELSE [store |-> FALSE, body |-> response_body]

cache_response(c, etags, request_url, request_headers, response_headers, response_status_code, response_reason_phrase, response_http_version, response_body) ==
    LET url == cache_url(request_url)
        key == url.key
        cc_req == parse_cache_control(request_headers)
        cc == parse_cache_control(response_headers)
        decision == StoreDecision(etags, response_headers,
                                  response_status_code, cc, response_body)
    IN  IF response_status_code \notin cacheable_status_codes
        THEN Raise(c, "NameError", <<>>)     \* the log call names `response`
        ELSE IF ContentLengthMismatch(response_headers, response_body)
        THEN Return(c, None, <<>>)
        ELSE IF ~url.ok THEN Raise(c, "Exception", <<>>)
        ELSE IF no_store(cc, cc_req)
        THEN IF Truthy(CacheGet(c, key))
             THEN Return(CacheDelete(c, key), None,
                         <<Call("get", key), Call("delete", key)>>)
             ELSE Return(c, None, <<Call("get", key)>>)
        ELSE IF VaryStar(response_headers) THEN Return(c, None, <<>>)
        ELSE IF decision.store
        THEN Return(CacheSet(c, key,
                             dumps(request_headers, response_headers,
                                   response_status_code, response_http_version,
                                   response_reason_phrase, decision.body)),
                    None, <<Call("set", key)>>)
        ELSE Return(c, None, <<>>)

(***************************************************************************)
(* update_cached_response                                                  *)
(***************************************************************************)

excluded_headers == {"content-length"}

\* A slip: Content-Length not excluded from the merge.
MergeHeaders_NothingExcluded(cached_headers, response_headers) ==
    [k \in DOMAIN cached_headers \cup DOMAIN response_headers |->
        IF k \in DOMAIN response_headers THEN response_headers[k]
        ELSE cached_headers[k]]

\* cached_headers.update(...): header names are the mapping's lower-case
\* names.
MergeHeaders(cached_headers, response_headers) ==
    LET taken == {k \in DOMAIN response_headers : k \notin excluded_headers}
    IN  [k \in DOMAIN cached_headers \cup taken |->
            IF k \in taken THEN response_headers[k] ELSE cached_headers[k]]

\* What the call stores and returns for the response it loaded.
UpdatedResponse(cached_response, response_headers) ==
    [kind |-> "tuple",
     http_version |-> cached_response.http_version,
     status |-> 200,
     reason |-> cached_response.reason,
     headers |-> MergeHeaders(cached_response.headers, response_headers),
     body |-> cached_response.body]

\* update_cached_response writing an entry where it found none.
update_cached_response_StoresAnyway(c, request_url, request_headers, response_headers) ==
    LET url == cache_url(request_url)
        key == url.key
    IN  IF ~url.ok THEN Raise(c, "Exception", <<>>)
        ELSE LET cached_response == loads(request_headers, CacheGet(c, key))
                 updated == UpdatedResponse(cached_response, response_headers)
             IN
        IF cached_response = None
        THEN Return(CacheSet(c, key,
                             dumps(request_headers, response_headers, 200,
                                   "HTTP/1.1", "OK", Bytes(<<>>))),
                    None, <<Call("get", key), Call("set", key)>>)
        ELSE Return(CacheSet(c, key,
                             dumps(request_headers, updated.headers,
                                   updated.status, updated.http_version,
                                   updated.reason, updated.body)),
                    updated, <<Call("get", key), Call("set", key)>>)

update_cached_response(c, request_url, request_headers, response_headers) ==
    LET url == cache_url(request_url)
        key == url.key
    IN  IF ~url.ok THEN Raise(c, "Exception", <<>>)
        ELSE LET cached_response == loads(request_headers, CacheGet(c, key))
                 updated == UpdatedResponse(cached_response, response_headers)
             IN
        IF cached_response = None
        THEN Return(c, None, <<Call("get", key)>>)
        ELSE Return(CacheSet(c, key,
                             dumps(request_headers, updated.headers,
                                   updated.status, updated.http_version,
                                   updated.reason, updated.body)),
                    updated, <<Call("get", key), Call("set", key)>>)

(***************************************************************************)
(* The calls the model makes.                                              *)
(***************************************************************************)

\* The number of clock readings after the epoch, one minute apart, that
\* time.time() may return.
MaxTick == 2

Times == {60 * k : k \in 0..MaxTick}

PageURL == [scheme |-> "http", authority |-> "example.org", path |-> "/page"]
OtherURL == [scheme |-> "http", authority |-> "example.org", path |-> "/other"]
NoSchemeURL == [scheme |-> "", authority |-> "", path |-> "/page"]
NoAuthorityURL == [scheme |-> "http", authority |-> "", path |-> "/page"]

URLs == {PageURL, NoSchemeURL, NoAuthorityURL}

Keys == {str(PageURL), str(OtherURL)}

Date30 == "Thu, 01 Jan 1970 00:00:30 GMT"
Date90 == "Thu, 01 Jan 1970 00:01:30 GMT"
Date300 == "Thu, 01 Jan 1970 00:05:00 GMT"
NotADate == "tomorrow"

MaxAge(digits) == MAX_AGE \o <<"=">> \o digits
MinFresh(digits) == MIN_FRESH \o <<"=">> \o digits
Both(a, b) == a \o <<",", " ">> \o b

\* Request headers of the lookups.
LookupHeaders ==
    { EmptyHeaders,
      "cache-control" :> NO_CACHE,
      ("cache-control" :> MaxAge(<<"0">>)) @@ ("date" :> Date30),
      ("cache-control" :> MaxAge(<<"6", "0">>)) @@ ("date" :> Date30),
      ("cache-control" :> Both(MaxAge(<<"6", "0">>), MinFresh(<<"4", "0">>)))
          @@ ("date" :> Date30),
      "date" :> Date30,
      ("date" :> Date30) @@ ("etag" :> "v1") @@ ("expires" :> Date90),
      "etag" :> "v1",
      "date" :> NotADate,
      ("date" :> Date30) @@ ("etag" :> "v1") @@ ("expires" :> NotADate) }

\* Request headers of the stores.
StoreRequestHeaders == {EmptyHeaders, "cache-control" :> NO_STORE}

\* Response headers of the stores.
StoreResponseHeaders ==
    { EmptyHeaders,
      "etag" :> "v1",
      ("etag" :> "v1") @@ ("content-length" :> <<"2">>),
      ("etag" :> "v1") @@ ("vary" :> <<"*">>),
      ("etag" :> "v1") @@ ("cache-control" :> NO_STORE),
      ("date" :> Date30) @@ ("cache-control" :> MaxAge(<<"6", "0">>)),
      ("date" :> Date30) @@ ("cache-control" :> MaxAge(<<"0">>)),
      "cache-control" :> MaxAge(<<"6", "0">>),
      ("date" :> Date30) @@ ("expires" :> Date90),
      ("date" :> Date30) @@ ("expires" :> "") }

Statuses == {200, 301, 308, 404}

Bodies == {None, Bytes(<<>>), Bytes(<<104, 105>>)}

\* Request and response headers of the 304 merges.
UpdateRequestHeaders == {EmptyHeaders}

NotModifiedHeaders ==
    { ("date" :> Date90) @@ ("content-length" :> <<"9">>),
      ("etag" :> "v2") @@ ("cache-control" :> MaxAge(<<"6", "0">>)),
      ("cache-control" :> NO_STORE) @@ ("vary" :> <<"*">>) }

\* An entry a former run left under the other key.
OtherEntry ==
    dumps(EmptyHeaders, "etag" :> "v0", 200, "HTTP/1.1", "OK", Bytes(<<>>))

\* One finished call: its arguments, its end, the backend before it.
Done(op, request_url, request_headers, response_headers, status, body, now, r) ==
    [op |-> op,
     request_url |-> request_url,
     request_headers |-> request_headers,
     response_headers |-> response_headers,
     status |-> status,
     body |-> body,
     now |-> now,
     outcome |-> r.outcome,
     result |-> r.result,
     calls |-> r.calls,
     before |-> cache]

\* No call is under way: the caller has taken the result of the last one.
Idle(c) ==
    [op |-> "idle", request_url |-> PageURL,
     request_headers |-> EmptyHeaders, response_headers |-> EmptyHeaders,
     status |-> 0, body |-> None, now |-> 0,
     outcome |-> "return", result |-> None, calls |-> <<>>, before |-> c]

Init ==
    /\ cache_etags \in BOOLEAN
    /\ \E data \in {None, Undecodable} :
          cache = [k \in Keys |-> IF k = str(OtherURL) THEN OtherEntry ELSE data]
    /\ last = Idle(cache)
    /\ threads = None

CachedRequest(urls, headers, times) ==
    \E request_url \in urls, request_headers \in headers, now \in times :
        LET r == cached_request(cache, request_url, request_headers, now)
        IN  /\ last.op = "idle"
            /\ cache' = r.cache
            /\ last' = Done("cached_request", request_url, request_headers,
                            EmptyHeaders, 0, None, now, r)
            /\ UNCHANGED <<cache_etags, threads>>

ConditionalHeaders(urls) ==
    \E request_url \in urls :
        LET r == conditional_headers(cache, request_url)
        IN  /\ last.op = "idle"
            /\ cache' = r.cache
            /\ last' = Done("conditional_headers", request_url, EmptyHeaders,
                            EmptyHeaders, 0, None, 0, r)
            /\ UNCHANGED <<cache_etags, threads>>

CacheResponse(urls, requests, responses, statuses, bodies) ==
    \E request_url \in urls, request_headers \in requests,
       response_headers \in responses, status \in statuses, body \in bodies :
        LET r == cache_response(cache, cache_etags, request_url, request_headers,
                                response_headers, status, "OK", "HTTP/1.1", body)
        IN  /\ last.op = "idle"
            /\ cache' = r.cache
            /\ last' = Done("cache_response", request_url, request_headers,
                            response_headers, status, body, 0, r)
            /\ UNCHANGED <<cache_etags, threads>>

UpdateCachedResponse(urls, requests, responses) ==
    \E request_url \in urls, request_headers \in requests,
       response_headers \in responses :
        LET r == update_cached_response(cache, request_url, request_headers,
                                        response_headers)
        IN  /\ last.op = "idle"
            /\ cache' = r.cache
            /\ last' = Done("update_cached_response", request_url,
                            request_headers, response_headers, 0, None, 0, r)
            /\ UNCHANGED <<cache_etags, threads>>

\* The caller takes the result; the next call may begin.
Continue ==
    /\ last.op # "idle"
    /\ last' = Idle(cache)
    /\ UNCHANGED <<cache, cache_etags, threads>>

Next ==
    \/ CachedRequest(URLs, LookupHeaders, Times)
    \/ ConditionalHeaders(URLs)
    \/ CacheResponse(URLs, StoreRequestHeaders, StoreResponseHeaders,
                     Statuses, Bodies)
    \/ UpdateCachedResponse(URLs, UpdateRequestHeaders, NotModifiedHeaders)
    \/ Continue

Spec == Init /\ [][Next]_vars

(***************************************************************************)
(* Vocabulary of the properties: the finished call, read off `last`.       *)
(***************************************************************************)

Called(op) == last.op = op

ValidURL == last.request_url.scheme # "" /\ last.request_url.authority # ""

LastKey == str(last.request_url)

\* What the backend held under the call's key before and after the call.
StoredBefore == last.before[LastKey]
StoredAfter == cache[LastKey]

BackendUnchanged == cache = last.before

Made(op) == \E i \in 1..Len(last.calls) : last.calls[i].op = op

\* The Cache-Control text of `headers` has `text` as one of its
\* comma-separated segments.
Says(headers, text) ==
    LET segments == split(HeaderGet(headers, "cache-control", <<>>), ",")
    IN  \E i \in 1..Len(segments) : strip(segments[i]) = text

\* The request asks to bypass the cache: no-cache, or max-age=0.
RequestBypasses ==
    Says(last.request_headers, NO_CACHE) \/ Says(last.request_headers, MaxAge(<<"0">>))

Miss == last.outcome = "return" /\ last.result = False

\* The lookup returned the response stored under its key.
Hit ==
    /\ last.outcome = "return"
    /\ last.result = [kind |-> "response",
                      http_version |-> StoredBefore.http_version,
                      status |-> StoredBefore.status,
                      reason |-> StoredBefore.reason,
                      headers |-> StoredBefore.headers,
                      body |-> StoredBefore.body]

(***************************************************************************)
(* C1.  The freshness rule as the claim states it, over the stored         *)
(* response's Date, max-age and Expires.                                   *)
(***************************************************************************)

C1_ReachesCheck ==
    /\ Called("cached_request") /\ ValidURL /\ ~RequestBypasses
    /\ StoredBefore.kind = "entry"
    /\ StoredBefore.status \notin {301, 308}
    /\ "date" \in DOMAIN StoredBefore.headers
    /\ StoredBefore.headers["date"] \in DOMAIN HttpDate

C1_Date == HttpDate[StoredBefore.headers["date"]]

C1_Lifetime ==
    LET request == parse_cache_control(last.request_headers)
        stored == parse_cache_control(StoredBefore.headers)
    IN  IF MAX_AGE \in DOMAIN request THEN request[MAX_AGE].val
        ELSE IF MAX_AGE \in DOMAIN stored THEN stored[MAX_AGE].val
        ELSE IF /\ "expires" \in DOMAIN StoredBefore.headers
                /\ StoredBefore.headers["expires"] \in DOMAIN HttpDate
        THEN Max(0, HttpDate[StoredBefore.headers["expires"]] - C1_Date)
        ELSE 0

C1_Age ==
    LET request == parse_cache_control(last.request_headers)
    IN  Max(0, last.now - C1_Date)
          + (IF MIN_FRESH \in DOMAIN request THEN request[MIN_FRESH].val ELSE 0)

\* C1: a lookup that reaches the freshness check returns the stored
\* response exactly when freshness_lifetime > current_age, both taken from
\* the stored response (the request's max-age and min-fresh applied); on a
\* miss the entry is deleted when it has no ETag and kept when it has one.
C1_FreshnessRule ==
    C1_ReachesCheck =>
        /\ Hit <=> C1_Lifetime > C1_Age
        /\ ~Hit => /\ Miss
                   /\ IF "etag" \in DOMAIN StoredBefore.headers
                      THEN StoredAfter = StoredBefore
                      ELSE StoredAfter = None

(***************************************************************************)
(* C2.                                                                     *)
(***************************************************************************)

\* C2: a lookup whose request says no-cache or max-age=0 reports a miss and
\* makes no backend call, whatever is stored under the key.
C2_BypassTouchesNothing ==
    (Called("cached_request") /\ ValidURL /\ RequestBypasses) =>
        Miss /\ last.calls = <<>> /\ BackendUnchanged

\* A max-age=0 lookup on a key that holds an entry.
C2_Witness ==
    /\ Called("cached_request") /\ ValidURL
    /\ Says(last.request_headers, MaxAge(<<"0">>))
    /\ StoredBefore.kind = "entry"
    /\ Miss /\ StoredAfter = StoredBefore

(***************************************************************************)
(* C3.                                                                     *)
(***************************************************************************)

NoStoreEitherSide ==
    Says(last.request_headers, NO_STORE) \/ Says(last.response_headers, NO_STORE)

\* C3 as stated: after any cache_response with no-store on either side that
\* returns, whatever the status code, body and other headers, the key holds
\* no entry.
C3_NoStoreAlwaysClears ==
    (/\ Called("cache_response") /\ ValidURL /\ NoStoreEitherSide
     /\ last.outcome = "return") =>
        StoredAfter.kind # "entry"

\* C3 amended: a cache_response with no-store on either side, a cacheable
\* status and no Content-Length mismatch returns with nothing stored under
\* the key: what was there has been deleted and nothing has been written.
C3_NoStoreClears ==
    (/\ Called("cache_response") /\ ValidURL /\ NoStoreEitherSide
     /\ last.status \in {200, 203, 300, 301, 308}
     /\ ~ContentLengthMismatch(last.response_headers, last.body)) =>
        /\ last.outcome = "return"
        /\ StoredAfter = None
        /\ ~Made("set")

\* A no-store request removed an entry although the response has an ETag.
C3_Witness ==
    /\ Called("cache_response") /\ ValidURL
    /\ Says(last.request_headers, NO_STORE)
    /\ "etag" \in DOMAIN last.response_headers
    /\ last.status = 200
    /\ StoredBefore.kind = "entry"
    /\ StoredAfter = None

(***************************************************************************)
(* C4.                                                                     *)
(***************************************************************************)

\* C4: a lookup that is not bypassed, on a key whose stored entry has status
\* 301 or 308, returns that entry and leaves the backend unchanged, at every
\* time and with or without Date, ETag, max-age or Expires.
C4_RedirectReturned ==
    (/\ Called("cached_request") /\ ValidURL /\ ~RequestBypasses
     /\ StoredBefore.kind = "entry"
     /\ StoredBefore.status \in {301, 308}) =>
        Hit /\ BackendUnchanged

\* A stored 308 without a Date is returned to a request without a Date, long
\* after it was stored.
C4_Witness ==
    /\ Called("cached_request") /\ ValidURL
    /\ StoredBefore.kind = "entry"
    /\ StoredBefore.status = 308
    /\ "date" \notin DOMAIN StoredBefore.headers
    /\ "date" \notin DOMAIN last.request_headers
    /\ last.now > 0
    /\ Hit /\ BackendUnchanged

(***************************************************************************)
(* C5.                                                                     *)
(***************************************************************************)

\* C5: on a lookup that is not bypassed and returns, a stored non-redirect entry whose
\* captured request headers lack a Date is deleted and the lookup misses when
\* they lack an ETag too; with an ETag the lookup misses and the entry stays.
C5_StoredRequestDecides ==
    (/\ Called("cached_request") /\ ValidURL /\ ~RequestBypasses
     /\ last.outcome = "return"
     /\ StoredBefore.kind = "entry"
     /\ StoredBefore.status \notin {301, 308}
     /\ "date" \notin DOMAIN StoredBefore.request_headers) =>
        /\ Miss
        /\ IF "etag" \in DOMAIN StoredBefore.request_headers
           THEN StoredAfter = StoredBefore
           ELSE StoredAfter = None

(***************************************************************************)
(* C6.                                                                     *)
(***************************************************************************)

\* C6: cache_response with a status outside {200, 203, 300, 301, 308}
\* returns without raising and leaves the backend as it was.
C6_UncacheableReturns ==
    (/\ Called("cache_response") /\ ValidURL
     /\ last.status \notin {200, 203, 300, 301, 308}) =>
        last.outcome = "return" /\ BackendUnchanged

(***************************************************************************)
(* C7.                                                                     *)
(***************************************************************************)

\* The response passes the tests before the store decision.
C7_Eligible ==
    /\ Called("cache_response") /\ ValidURL
    /\ last.status \in {200, 203, 300, 301, 308}
    /\ ~ContentLengthMismatch(last.response_headers, last.body)
    /\ ~NoStoreEitherSide
    /\ ~VaryStar(last.response_headers)

C7_MaxAgePositive ==
    LET cc == parse_cache_control(last.response_headers)
    IN  MAX_AGE \in DOMAIN cc /\ cc[MAX_AGE].val > 0

C7_Rules ==
    \/ cache_etags /\ "etag" \in DOMAIN last.response_headers
    \/ last.status \in {301, 308}
    \/ "date" \in DOMAIN last.response_headers /\ C7_MaxAgePositive
    \/ /\ "date" \in DOMAIN last.response_headers
       /\ "expires" \in DOMAIN last.response_headers
       /\ last.response_headers["expires"] # ""

\* C7: an eligible response is written exactly when one of the rules (a) to
\* (d) holds; otherwise the backend is unchanged.
C7_WrittenIffRule ==
    C7_Eligible =>
        /\ Made("set") <=> C7_Rules
        /\ ~C7_Rules => BackendUnchanged

(***************************************************************************)
(* C8.                                                                     *)
(***************************************************************************)

\* C8 as stated: every permanent redirect stored from a call that passed a
\* body has the empty body.
C8_RedirectBodyAlwaysEmpty ==
    (/\ Called("cache_response") /\ Made("set") /\ last.status \in {301, 308}
     /\ last.body # None) =>
        StoredAfter.body = Bytes(<<>>)

\* C8 amended: a permanent redirect that is not stored under the ETag rule
\* (ETag caching off, or no ETag on the response) is stored with the empty
\* body, whatever body was passed and with or without max-age or Expires.
C8_RedirectBodyEmpty ==
    (/\ Called("cache_response") /\ Made("set") /\ last.status \in {301, 308}
     /\ ~(cache_etags /\ "etag" \in DOMAIN last.response_headers)) =>
        StoredAfter.kind = "entry" /\ StoredAfter.body = Bytes(<<>>)

\* A 301 with max-age and a two-byte body, stored with the empty body.
C8_Witness ==
    /\ Called("cache_response") /\ Made("set") /\ last.status = 301
    /\ "etag" \notin DOMAIN last.response_headers
    /\ C7_MaxAgePositive
    /\ last.body = Bytes(<<104, 105>>)
    /\ StoredAfter.body = Bytes(<<>>)

(***************************************************************************)
(* C9.                                                                     *)
(***************************************************************************)

C9_LengthDisagrees ==
    /\ last.body # None
    /\ "content-length" \in DOMAIN last.response_headers
    /\ isdigit(last.response_headers["content-length"])
    /\ DigitsValue(last.response_headers["content-length"]) # Len(last.body.bytes)

C9_VaryHasStar ==
    /\ "vary" \in DOMAIN last.response_headers
    /\ \E i \in 1..Len(last.response_headers["vary"]) :
          last.response_headers["vary"][i] = "*"

\* C9: cache_response leaves the backend as it was when a body is given and
\* the numeric Content-Length differs from its length, or when neither side
\* has no-store and Vary contains "*".
C9_RejectedLeavesBackend ==
    (Called("cache_response")
       /\ (C9_LengthDisagrees \/ (~NoStoreEitherSide /\ C9_VaryHasStar))) =>
        BackendUnchanged /\ ~Made("set") /\ ~Made("delete")

\* A 200 with an ETag, Content-Length 2 and an empty body, over a stored
\* entry: nothing replaced.
C9_Witness ==
    /\ Called("cache_response") /\ ValidURL /\ last.status = 200
    /\ cache_etags /\ "etag" \in DOMAIN last.response_headers
    /\ C9_LengthDisagrees
    /\ StoredBefore.kind = "entry"
    /\ last.outcome = "return" /\ BackendUnchanged

(***************************************************************************)
(* C10.                                                                    *)
(***************************************************************************)

C10_Merged ==
    LET new == last.response_headers
        old == StoredBefore.headers
        taken == DOMAIN new \ {"content-length"}
    IN  [k \in DOMAIN old \cup taken |-> IF k \in taken THEN new[k] ELSE old[k]]

\* C10: update_cached_response on a stored entry writes and returns the old
\* entry with status 200 and the 304's headers laid over the old ones,
\* Content-Length excepted; with no entry it returns None and writes nothing.
C10_MergeResult ==
    (Called("update_cached_response") /\ ValidURL) =>
        IF StoredBefore.kind = "entry"
        THEN /\ last.outcome = "return"
             /\ StoredAfter.kind = "entry"
             /\ StoredAfter.headers = C10_Merged
             /\ StoredAfter.status = 200
             /\ StoredAfter.body = StoredBefore.body
             /\ StoredAfter.http_version = StoredBefore.http_version
             /\ StoredAfter.reason = StoredBefore.reason
             /\ last.result = [kind |-> "tuple",
                               http_version |-> StoredBefore.http_version,
                               status |-> 200,
                               reason |-> StoredBefore.reason,
                               headers |-> C10_Merged,
                               body |-> StoredBefore.body]
             /\ \A k \in Keys \ {LastKey} : cache[k] = last.before[k]
        ELSE last.outcome = "return" /\ last.result = None /\ BackendUnchanged

\* A stored 301 with Content-Length 2 met a 304 with Content-Length 9 and a
\* new Date: the Date is taken, the Content-Length is not, the status is 200.
C10_Witness ==
    /\ Called("update_cached_response") /\ ValidURL
    /\ StoredBefore.kind = "entry"
    /\ StoredBefore.status = 301
    /\ "content-length" \in DOMAIN StoredBefore.headers
    /\ "content-length" \in DOMAIN last.response_headers
    /\ StoredAfter.headers["content-length"] = StoredBefore.headers["content-length"]
    /\ StoredAfter.headers["content-length"] # last.response_headers["content-length"]
    /\ StoredAfter.headers["date"] = Date90
    /\ StoredAfter.status = 200

(***************************************************************************)
(* C11.  A lookup that follows a store at once.  The calls are those of    *)
(* Spec, except that the lookup, and the 304 merge, may begin while `last` *)
(* still holds the call before it, so that a step relates the arguments of *)
(* the store to the result of the lookup.                                  *)
(***************************************************************************)

RoundTripResponses ==
    { "etag" :> "v1",
      ("date" :> Date30) @@ ("cache-control" :> MaxAge(<<"6", "0">>)),
      ("date" :> Date30) @@ ("expires" :> Date90) }

RoundTripLookups ==
    { EmptyHeaders,
      "date" :> Date30,
      ("date" :> Date30) @@ ("etag" :> "v1") @@ ("expires" :> Date90) }

\* cached_request for the URL of the call that has just finished.
LookupFollows(headers, times) ==
    \E request_headers \in headers, now \in times :
        LET r == cached_request(cache, last.request_url, request_headers, now)
        IN  /\ last.op \in {"cache_response", "update_cached_response"}
            /\ cache' = r.cache
            /\ last' = Done("cached_request", last.request_url, request_headers,
                            EmptyHeaders, 0, None, now, r)
            /\ UNCHANGED <<cache_etags, threads>>

\* update_cached_response for the URL of the store that has just finished.
UpdateFollows(requests, responses) ==
    \E request_headers \in requests, response_headers \in responses :
        LET r == update_cached_response(cache, last.request_url, request_headers,
                                        response_headers)
        IN  /\ last.op = "cache_response"
            /\ cache' = r.cache
            /\ last' = Done("update_cached_response", last.request_url,
                            request_headers, response_headers, 0, None, 0, r)
            /\ UNCHANGED <<cache_etags, threads>>

NextRoundTrip ==
    \/ CacheResponse({PageURL}, {EmptyHeaders}, RoundTripResponses,
                     {200, 301}, {Bytes(<<>>), Bytes(<<104, 105>>)})
    \/ UpdateFollows(UpdateRequestHeaders, NotModifiedHeaders)
    \/ LookupFollows(RoundTripLookups, Times)
    \/ Continue

SpecRoundTrip == Init /\ [][NextRoundTrip]_vars

\* The store that has just finished wrote a response that is not a
\* permanent redirect, with a Date and a lifetime (max-age, else Expires
\* minus Date) in its response headers.
C11_Stored ==
    /\ Called("cache_response") /\ Made("set")
    /\ last.status \notin {301, 308}
    /\ "date" \in DOMAIN last.response_headers
    /\ last.response_headers["date"] \in DOMAIN HttpDate

C11_Expiry ==
    LET stored == parse_cache_control(last.response_headers)
        date == HttpDate[last.response_headers["date"]]
    IN  IF MAX_AGE \in DOMAIN stored THEN date + stored[MAX_AGE].val
        ELSE IF /\ "expires" \in DOMAIN last.response_headers
                /\ last.response_headers["expires"] \in DOMAIN HttpDate
        THEN HttpDate[last.response_headers["expires"]]
        ELSE date

C11_LookupStep ==
    (/\ C11_Stored
     /\ last'.op = "cached_request"
     /\ "cache-control" \notin DOMAIN last'.request_headers
     /\ last'.now < C11_Expiry)
    => /\ last'.outcome = "return"
       /\ last'.result.kind = "response"
       /\ last'.result.headers = last.response_headers
       /\ last'.result.status = last.status
       /\ last'.result.body = last.body

\* C11: a lookup that follows a store of the same key at once, before the
\* stored response expires and without no-cache or max-age=0, returns the
\* headers, status and body that were passed to the store.
C11_RoundTrip == [][C11_LookupStep]_vars

(***************************************************************************)
(* C12.                                                                    *)
(***************************************************************************)

\* The validators the claim expects for the entry stored under the key.
C12_Validators ==
    IF StoredBefore.kind # "entry" THEN EmptyHeaders
    ELSE LET stored == StoredBefore.headers
             names == {n \in {"etag", "last-modified"} : n \in DOMAIN stored}
         IN  [h \in {IF n = "etag" THEN "If-None-Match" ELSE "If-Modified-Since"
                        : n \in names}
                 |-> IF h = "If-None-Match" THEN stored["etag"]
                     ELSE stored["last-modified"]]

\* C12: conditional_headers for an absolute URL completes without error,
\* returns If-None-Match and If-Modified-Since for the stored ETag and
\* Last-Modified (an empty header set when nothing is stored), and leaves
\* the backend unchanged.
C12_ReturnsValidators ==
    (Called("conditional_headers") /\ ValidURL) =>
        /\ last.outcome = "return"
        /\ last.result = [kind |-> "headers", headers |-> C12_Validators]
        /\ BackendUnchanged

(***************************************************************************)
(* C13.                                                                    *)
(***************************************************************************)

C13_Operations ==
    {"cached_request", "conditional_headers", "cache_response",
     "update_cached_response"}

\* C13 as stated, for the stores of a cacheable status: every operation
\* called with a URL that lacks a scheme or an authority fails with the
\* invalid-URL error and leaves the backend unchanged, whatever its other
\* arguments are.
C13_InvalidURLAlwaysFails ==
    (/\ last.op \in C13_Operations /\ ~ValidURL
     /\ Called("cache_response") => last.status \in cacheable_status_codes)
    => last.outcome = "Exception" /\ BackendUnchanged

\* C13: with a URL that lacks a scheme or an authority the backend is never
\* touched; cached_request, conditional_headers and update_cached_response
\* fail with the invalid-URL error whatever their other arguments are;
\* cache_response with a cacheable status fails with it unless the
\* Content-Length disagrees with the body, and then it returns normally.
C13_InvalidURLFails ==
    (last.op \in C13_Operations /\ ~ValidURL) =>
        /\ BackendUnchanged /\ last.calls = <<>>
        /\ ~Called("cache_response") => last.outcome = "Exception"
        /\ (Called("cache_response") /\ last.status \in cacheable_status_codes)
           => IF C9_LengthDisagrees THEN last.outcome = "return"
              ELSE last.outcome = "Exception"

\* A lookup that asks for no-cache, refused for its URL without authority
\* while the backend holds an entry.
C13_Witness ==
    /\ Called("cached_request") /\ last.request_url = NoAuthorityURL
    /\ RequestBypasses
    /\ last.outcome = "Exception"
    /\ last.before[str(PageURL)].kind = "entry"
    /\ BackendUnchanged

(***************************************************************************)
(* C14.                                                                    *)
(***************************************************************************)

\* C14: a lookup that is not bypassed and finds bytes the serializer cannot
\* decode reports a miss without raising, and the bytes are still in the
\* backend, unchanged.
C14_UndecodableIsMiss ==
    (/\ Called("cached_request") /\ ValidURL /\ ~RequestBypasses
     /\ StoredBefore = Undecodable)
    => /\ Miss
       /\ last.calls = <<Call("get", LastKey)>>
       /\ StoredAfter = Undecodable
       /\ BackendUnchanged

\* Such a lookup whose request has neither Date nor ETag, the shape that
\* purges a decodable entry.
C14_Witness ==
    /\ Called("cached_request") /\ ValidURL /\ ~RequestBypasses
    /\ StoredBefore = Undecodable
    /\ "date" \notin DOMAIN last.request_headers
    /\ "etag" \notin DOMAIN last.request_headers
    /\ Miss
    /\ StoredAfter = Undecodable

(***************************************************************************)
(* C15.  parse_cache_control as a function of the header value: the        *)
(* values are the lists of at most MaxSegments segments, joined by ", ".   *)
(* Each segment comes with the name it gives and with what the claim has   *)
(* it record: nothing, no value, or an integer.                            *)
(***************************************************************************)

MaxSegments == 2

Absent == [kind |-> "absent"]

Letters(name, text) == name \o <<"=">> \o text

Segment(text, name, means) == [text |-> text, name |-> name, means |-> means]

Segments ==
    { Segment(<<"f", "o", "o", "=", "1">>, <<"f", "o", "o">>, Absent),
      Segment(Letters(MAX_AGE, <<"3", "0">>), MAX_AGE, IntValue(30)),
      Segment(MAX_AGE, MAX_AGE, Absent),
      Segment(Letters(MAX_AGE, <<"a", "b", "c">>), MAX_AGE, Absent),
      Segment(Letters(MAX_STALE, <<"5">>), MAX_STALE, IntValue(5)),
      Segment(MAX_STALE, MAX_STALE, None),
      Segment(Letters(MAX_STALE, <<"a", "b", "c">>), MAX_STALE, Absent),
      Segment(Letters(MIN_FRESH, <<"x">>), MIN_FRESH, Absent),
      Segment(Letters(S_MAXAGE, <<"1", "0">>), S_MAXAGE, IntValue(10)),
      Segment(S_MAXAGE, S_MAXAGE, Absent),
      Segment(NO_CACHE, NO_CACHE, None),
      Segment(NO_STORE, NO_STORE, None) }

SegmentLists ==
    UNION {[1..n -> Segments] : n \in 0..MaxSegments}

\* The header value made of the segments.
RECURSIVE Join(_)
Join(segments) ==
    IF Len(segments) = 0 THEN <<>>
    ELSE IF Len(segments) = 1 THEN segments[1].text
    ELSE segments[1].text \o <<",", " ">> \o Join(Tail(segments))

\* A header value waits to be parsed.
InitParse ==
    /\ cache_etags = FALSE
    /\ cache = [k \in Keys |-> IF k = str(OtherURL) THEN OtherEntry ELSE None]
    /\ threads = None
    /\ \E segments \in SegmentLists :
          last = [op |-> "header", segments |-> segments,
                  request_headers |-> "cache-control" :> Join(segments),
                  result |-> None]

ParseCacheControl ==
    /\ last.op = "header"
    /\ last' = [last EXCEPT
                  !.op = "parse_cache_control",
                  !.result = [kind |-> "directives",
                              directives |-> parse_cache_control(last.request_headers)]]
    /\ UNCHANGED <<cache, cache_etags, threads>>

SpecParse == InitParse /\ [][ParseCacheControl]_vars

\* What the claim has a list of segments record: for each name, the meaning
\* of the last segment of that name that records something.
C15_Recorded(segments) ==
    LET counts(i) == segments[i].means # Absent
        names == {segments[i].name : i \in {j \in 1..Len(segments) : counts(j)}}
        final(name) ==
            CHOOSE i \in 1..Len(segments) :
                /\ segments[i].name = name /\ counts(i)
                /\ \A j \in (i + 1)..Len(segments) :
                      ~(segments[j].name = name /\ counts(j))
    IN  [name \in names |-> segments[final(name)].means]

\* C15: the mapping parse_cache_control returns holds exactly the directives
\* of the well-formed recognized segments: a segment with an unknown name, a
\* max-age, min-fresh or s-maxage without value, and a max-age, max-stale,
\* min-fresh or s-maxage whose value is no integer record nothing and leave
\* what the other segments record as it is; flags record no value.
C15_ExactlyWellFormed ==
    Called("parse_cache_control") =>
        last.result.directives = C15_Recorded(last.segments)

(***************************************************************************)
(* C16.                                                                    *)
(***************************************************************************)

\* The entry declares a numeric Content-Length other than the length of
\* its body.
C16_LengthDiffers(entry) ==
    /\ entry.body # None
    /\ "content-length" \in DOMAIN entry.headers
    /\ isdigit(entry.headers["content-length"])
    /\ DigitsValue(entry.headers["content-length"]) # Len(entry.body.bytes)

C16_VaryStar(entry) ==
    /\ "vary" \in DOMAIN entry.headers
    /\ \E i \in 1..Len(entry.headers["vary"]) : entry.headers["vary"][i] = "*"

C16_NoStore(entry) ==
    \/ NO_STORE \in DOMAIN parse_cache_control(entry.headers)
    \/ NO_STORE \in DOMAIN parse_cache_control(entry.request_headers)

\* C16: in every reachable state no entry of the backend declares a numeric
\* Content-Length other than the length of its body, carries Vary: *, or
\* has no-store in its response headers or in the request headers it was
\* stored with.
C16_EntriesConsistent ==
    \A k \in Keys :
        cache[k].kind = "entry" =>
            /\ ~C16_LengthDiffers(cache[k])
            /\ ~C16_VaryStar(cache[k])
            /\ ~C16_NoStore(cache[k])

(***************************************************************************)
(* C17.  The four operations on two URLs, so that every call has a key of  *)
(* its own and a key of another URL beside it.                             *)
(***************************************************************************)

NextKeys ==
    \/ CachedRequest({PageURL, OtherURL},
                     { EmptyHeaders,
                       "etag" :> "v1",
                       "cache-control" :> NO_CACHE,
                       ("cache-control" :> MaxAge(<<"6", "0">>)) @@ ("date" :> Date30) },
                     Times)
    \/ ConditionalHeaders({PageURL, OtherURL})
    \/ CacheResponse({PageURL, OtherURL}, StoreRequestHeaders,
                     { "etag" :> "v1",
                       ("etag" :> "v1") @@ ("cache-control" :> NO_STORE),
                       ("date" :> Date30) @@ ("cache-control" :> MaxAge(<<"6", "0">>)) },
                     {200, 301}, {Bytes(<<104, 105>>)})
    \/ UpdateCachedResponse({PageURL, OtherURL}, UpdateRequestHeaders,
                            {("etag" :> "v2") @@ ("cache-control" :> MaxAge(<<"6", "0">>))})
    \/ Continue

SpecKeys == Init /\ [][NextKeys]_vars

C17_HoldsEntry(c, k) == c[k].kind = "entry"

\* C17: a key without entry gets one only from cache_response; cached_request
\* changes nothing but to remove the entry of its key, and nothing on a hit;
\* update_cached_response only overwrites an entry of its key; an entry
\* disappears only in a purge of cached_request or in the no-store case of
\* cache_response; conditional_headers changes nothing; and every backend
\* call of an operation is on the key of its own URL.
C17_LifecycleAndFrame ==
    last.op # "idle" =>
        /\ \A k \in Keys :
              (~C17_HoldsEntry(last.before, k) /\ C17_HoldsEntry(cache, k))
              => Called("cache_response")
        /\ Called("cached_request") =>
              /\ \A k \in Keys : cache[k] = last.before[k] \/ cache[k] = None
              /\ (last.outcome = "return" /\ last.result # False) => BackendUnchanged
        /\ Called("update_cached_response") =>
              \A k \in Keys :
                 cache[k] # last.before[k]
                 => C17_HoldsEntry(last.before, k) /\ C17_HoldsEntry(cache, k)
        /\ Called("conditional_headers") => BackendUnchanged
        /\ \A k \in Keys :
              (C17_HoldsEntry(last.before, k) /\ ~C17_HoldsEntry(cache, k))
              => \/ Called("cached_request") /\ Made("delete")
                 \/ Called("cache_response") /\ NoStoreEitherSide
        /\ \A i \in 1..Len(last.calls) : last.calls[i].key = LastKey
        /\ \A k \in Keys \ {LastKey} : cache[k] = last.before[k]

\* A lookup of the other URL purged its entry while the page's key held an
\* entry, which stayed as it was.
C17_Witness ==
    /\ Called("cached_request") /\ last.request_url = OtherURL
    /\ C17_HoldsEntry(last.before, str(OtherURL))
    /\ cache[str(OtherURL)] = None
    /\ C17_HoldsEntry(last.before, str(PageURL))
    /\ cache[str(PageURL)] = last.before[str(PageURL)]

(***************************************************************************)
(* C19.                                                                    *)
(***************************************************************************)

\* The lookup comes to the age computation with a Date that is no HTTP-date.
\* The Date it uses is the one among its request headers.
C19_UnparsableDate ==
    /\ Called("cached_request") /\ ValidURL /\ ~RequestBypasses
    /\ StoredBefore.kind = "entry"
    /\ StoredBefore.status \notin PERMANENT_REDIRECT_STATUSES
    /\ "date" \in DOMAIN last.request_headers
    /\ last.request_headers["date"] \notin DOMAIN HttpDate

\* C19: a lookup whose Date is present but unparsable does not raise: it
\* reports a miss, deleting the entry when there is no ETag and keeping it
\* when there is one, as for a missing Date.
C19_UnparsableDateIsAbsent ==
    C19_UnparsableDate =>
        /\ Miss
        /\ IF "etag" \in DOMAIN last.request_headers
           THEN StoredAfter = StoredBefore
           ELSE StoredAfter = None

(***************************************************************************)
(* C18, C20.  Two calls for the same key at the same time: a lookup or a   *)
(* 304 merge (the reader) beside a store.  A step of a thread runs its     *)
(* handler up to and including its next backend call; each backend call is *)
(* atomic.  What a handler does after its get depends on the data it read  *)
(* and on its arguments only, so the handler is applied to the backend as  *)
(* it is at the get, and its later call acts on the backend as it is then. *)
(* `last` keeps the backend the threads started from.                      *)
(***************************************************************************)

RaceKey == str(PageURL)

\* An entry stored before the threads start.
OldEntry ==
    dumps(EmptyHeaders, "etag" :> "v1", 200, "HTTP/1.1", "OK",
          Bytes(<<111, 108, 100>>))

Thread(op, request_headers, response_headers, status, body, now) ==
    [op |-> op, pc |-> "start",
     request_headers |-> request_headers,
     response_headers |-> response_headers,
     status |-> status, body |-> body, now |-> now,
     read |-> None, write |-> None, outcome |-> "running", result |-> None]

RaceReaders ==
    {Thread("cached_request", h, EmptyHeaders, 0, None, now) :
        h \in LookupHeaders, now \in Times}
    \cup
    {Thread("update_cached_response", EmptyHeaders, h, 0, None, 0) :
        h \in NotModifiedHeaders}

RaceStores ==
    {Thread("cache_response", EmptyHeaders, h, s, Bytes(<<104, 105>>), 0) :
        h \in { "etag" :> "v1",
                ("etag" :> "v1") @@ ("cache-control" :> NO_STORE),
                ("date" :> Date30) @@ ("cache-control" :> MaxAge(<<"6", "0">>)) },
        s \in {200, 301}}

InitRace ==
    /\ cache_etags \in BOOLEAN
    /\ \E data \in {None, OldEntry} :
          cache = [k \in Keys |-> IF k = str(OtherURL) THEN OtherEntry ELSE data]
    /\ last = Idle(cache)
    /\ \E reader \in RaceReaders, store \in RaceStores :
          threads = [reader |-> reader, store |-> store, log |-> <<>>]

Logged(thread, op) == [thread |-> thread, op |-> op]

\* cached_request up to its get, and on to its return unless a delete is
\* still to come.
LookupGet ==
    LET t == threads.reader
        r == cached_request(cache, PageURL, t.request_headers, t.now)
        deletes == \E i \in 1..Len(r.calls) : r.calls[i].op = "delete"
    IN  /\ t.op = "cached_request" /\ t.pc = "start"
        /\ threads' =
             [threads EXCEPT
                !.reader = [t EXCEPT !.pc = IF deletes THEN "delete" ELSE "done",
                                     !.read = IF r.calls = <<>> THEN None
                                              ELSE CacheGet(cache, RaceKey),
                                     !.outcome = r.outcome,
                                     !.result = r.result],
                !.log = IF r.calls = <<>> THEN @
                        ELSE Append(@, Logged("reader", "get"))]
        /\ UNCHANGED <<cache, cache_etags, last>>

\* A delete that leaves a value written since the get.
LookupDelete_IfUnchanged ==
    LET t == threads.reader
    IN  /\ t.op = "cached_request" /\ t.pc = "delete"
        /\ cache' = IF CacheGet(cache, RaceKey) = t.read
                    THEN CacheDelete(cache, RaceKey) ELSE cache
        /\ threads' = [threads EXCEPT
                         !.reader = [t EXCEPT !.pc = "done"],
                         !.log = Append(@, Logged("reader", "delete"))]
        /\ UNCHANGED <<cache_etags, last>>

\* The purge of cached_request: self.cache.delete(cache_url).
LookupDelete ==
    LET t == threads.reader
    IN  /\ t.op = "cached_request" /\ t.pc = "delete"
        /\ cache' = CacheDelete(cache, RaceKey)
        /\ threads' = [threads EXCEPT
                         !.reader = [t EXCEPT !.pc = "done"],
                         !.log = Append(@, Logged("reader", "delete"))]
        /\ UNCHANGED <<cache_etags, last>>

\* update_cached_response up to its get; the entry it will set is made of
\* what it read.
UpdateGet ==
    LET t == threads.reader
        r == update_cached_response(cache, PageURL, t.request_headers,
                                    t.response_headers)
        sets == \E i \in 1..Len(r.calls) : r.calls[i].op = "set"
    IN  /\ t.op = "update_cached_response" /\ t.pc = "start"
        /\ threads' =
             [threads EXCEPT
                !.reader = [t EXCEPT !.pc = IF sets THEN "set" ELSE "done",
                                     !.read = CacheGet(cache, RaceKey),
                                     !.write = IF sets THEN r.cache[RaceKey]
                                               ELSE None,
                                     !.outcome = r.outcome,
                                     !.result = r.result],
                !.log = Append(@, Logged("reader", "get"))]
        /\ UNCHANGED <<cache, cache_etags, last>>

\* A set that merges into the entry stored at the time of the set.
UpdateSet_Rereads ==
    LET t == threads.reader
    IN  /\ t.op = "update_cached_response" /\ t.pc = "set"
        /\ cache' = update_cached_response(cache, PageURL, t.request_headers,
                                           t.response_headers).cache
        /\ threads' = [threads EXCEPT
                         !.reader = [t EXCEPT !.pc = "done"],
                         !.log = Append(@, Logged("reader", "set"))]
        /\ UNCHANGED <<cache_etags, last>>

\* The set of update_cached_response.
UpdateSet ==
    LET t == threads.reader
    IN  /\ t.op = "update_cached_response" /\ t.pc = "set"
        /\ cache' = CacheSet(cache, RaceKey, t.write)
        /\ threads' = [threads EXCEPT
                         !.reader = [t EXCEPT !.pc = "done"],
                         !.log = Append(@, Logged("reader", "set"))]
        /\ UNCHANGED <<cache_etags, last>>

\* cache_response up to its first backend call: the set, or the get of the
\* no-store case; without backend call it returns at once.
StoreBegin ==
    LET t == threads.store
        r == cache_response(cache, cache_etags, PageURL, t.request_headers,
                            t.response_headers, t.status, "OK", "HTTP/1.1",
                            t.body)
        first == IF r.calls = <<>> THEN "none" ELSE r.calls[1].op
    IN  /\ t.pc = "start"
        /\ cache' = IF first = "set" THEN r.cache ELSE cache
        /\ threads' =
             [threads EXCEPT
                !.store = [t EXCEPT !.pc = IF first = "get" /\ Len(r.calls) > 1
                                           THEN "delete" ELSE "done",
                                    !.read = IF first = "get"
                                             THEN CacheGet(cache, RaceKey)
                                             ELSE None,
                                    !.write = IF first = "set" THEN r.cache[RaceKey]
                                              ELSE None,
                                    !.outcome = r.outcome],
                !.log = IF first = "none" THEN @
                        ELSE Append(@, Logged("store", first))]
        /\ UNCHANGED <<cache_etags, last>>

\* The delete of the no-store case of cache_response.
StoreDelete ==
    LET t == threads.store
    IN  /\ t.pc = "delete"
        /\ cache' = CacheDelete(cache, RaceKey)
        /\ threads' = [threads EXCEPT
                         !.store = [t EXCEPT !.pc = "done"],
                         !.log = Append(@, Logged("store", "delete"))]
        /\ UNCHANGED <<cache_etags, last>>

NextRace ==
    \/ LookupGet
    \/ LookupDelete
    \/ UpdateGet
    \/ UpdateSet
    \/ StoreBegin
    \/ StoreDelete

SpecRace == InitRace /\ [][NextRace]_vars

\* Both threads have returned.
Finished == threads.reader.pc = "done" /\ threads.store.pc = "done"

\* When the backend call was made: its place in the log, 0 if it was not.
At(thread, op) ==
    IF \E i \in 1..Len(threads.log) : threads.log[i] = Logged(thread, op)
    THEN CHOOSE i \in 1..Len(threads.log) : threads.log[i] = Logged(thread, op)
    ELSE 0

\* The place of the last set or delete, 0 if there was none.
LastWrite ==
    LET writes == {i \in 1..Len(threads.log) :
                      threads.log[i].op \in {"set", "delete"}}
    IN  IF writes = {} THEN 0
        ELSE CHOOSE i \in writes : \A j \in writes : j <= i

RaceInitial == last.before[RaceKey]
RaceFinal == cache[RaceKey]

\* The key holds the response the store was given, whole.
HoldsStored ==
    /\ RaceFinal.kind = "entry"
    /\ RaceFinal.request_headers = threads.store.request_headers
    /\ RaceFinal.headers = threads.store.response_headers
    /\ RaceFinal.status = threads.store.status
    /\ RaceFinal.body \in {threads.store.body, Bytes(<<>>)}

\* C18: a lookup and a store of the same key side by side: the backend call
\* that comes last decides.  The store's set after the lookup's delete leaves
\* the new entry; the lookup's get of the old entry, then the set, then the
\* delete leave the key empty; and at the end the key is empty or holds one
\* whole entry, the old one or the new one.
C18_LastWriterWins ==
    (threads.reader.op = "cached_request" /\ Finished) =>
        /\ (At("reader", "delete") > 0 /\ At("store", "set") > At("reader", "delete"))
           => HoldsStored
        /\ (/\ At("reader", "get") > 0
            /\ At("store", "set") > At("reader", "get")
            /\ At("reader", "delete") > At("store", "set"))
           => RaceFinal = None
        /\ IF LastWrite = 0 THEN RaceFinal = RaceInitial
           ELSE IF threads.log[LastWrite].op = "delete" THEN RaceFinal = None
           ELSE HoldsStored
        /\ RaceFinal = None \/ RaceFinal = RaceInitial \/ HoldsStored

\* The lookup read the old entry, the store set the new one, the lookup's
\* delete came last: the new entry is gone.
C18_Witness ==
    /\ threads.reader.op = "cached_request" /\ Finished
    /\ threads.reader.read = OldEntry
    /\ At("reader", "get") = 1
    /\ At("store", "set") = 2
    /\ At("reader", "delete") = 3
    /\ RaceFinal = None

\* The other order: the set came after the delete, the new entry stays.
C18_StoreLast ==
    /\ threads.reader.op = "cached_request" /\ Finished
    /\ threads.reader.read = OldEntry
    /\ At("reader", "delete") = 2
    /\ At("store", "set") = 3
    /\ HoldsStored

(***************************************************************************)
(* C20.                                                                    *)
(***************************************************************************)

\* The entry carries the body, version and reason of what the merge read at
\* its get, with status 200.
C20_MadeOfRead(entry) ==
    /\ entry.kind = "entry"
    /\ entry.body = threads.reader.read.body
    /\ entry.http_version = threads.reader.read.http_version
    /\ entry.reason = threads.reader.read.reason
    /\ entry.status = 200

\* C20: a 304 merge and a store of the same key side by side: right after
\* the merge's set the key holds the body, version and reason the merge read
\* at its get, with status 200.  So when the store's set falls between the
\* merge's get and set, the key ends with the older body and the stored
\* response is lost; when it falls after the merge's set, the key ends with
\* the stored response.
C20_WritesWhatItRead ==
    threads.reader.op = "update_cached_response" =>
        /\ (/\ Len(threads.log) > 0
            /\ threads.log[Len(threads.log)] = Logged("reader", "set"))
           => C20_MadeOfRead(RaceFinal)
        /\ (/\ Finished
            /\ At("reader", "get") > 0
            /\ At("store", "set") > At("reader", "get")
            /\ At("reader", "set") > At("store", "set"))
           => /\ C20_MadeOfRead(RaceFinal)
              /\ RaceFinal.body = RaceInitial.body
              /\ RaceFinal.body # threads.store.write.body
        /\ (/\ Finished
            /\ At("reader", "set") > 0
            /\ At("store", "set") > At("reader", "set"))
           => HoldsStored /\ RaceFinal = threads.store.write

\* The store's set fell between the merge's get and set: the key ends with
\* the old body under the merged headers, the stored response is gone.
C20_Witness ==
    /\ threads.reader.op = "update_cached_response" /\ Finished
    /\ threads.reader.read = OldEntry
    /\ At("reader", "get") = 1
    /\ At("store", "set") = 2
    /\ At("reader", "set") = 3
    /\ RaceFinal.body = OldEntry.body
    /\ RaceFinal.status = 200
    /\ RaceFinal # threads.store.write

\* The other order: the store's set fell after the merge's set.
C20_StoreLast ==
    /\ threads.reader.op = "update_cached_response" /\ Finished
    /\ At("reader", "set") = 2
    /\ At("store", "set") = 3
    /\ RaceFinal = threads.store.write

====
